---------------------------- MODULE Spec2Model ----------------------------
(***************************************************************************)
(* The combat tracker of app/api/combat.py: a process-wide registry of     *)
(* combat sessions (active_combats), each owning an initiative-ordered     *)
(* list of combatants, a turn cursor and a round counter.                  *)
(*                                                                         *)
(* Every endpoint is an `async def` without a single await, so the event   *)
(* loop runs each handler from its first line to its return (or raise)     *)
(* without interleaving: one handler is one atomic action.                 *)
(***************************************************************************)
EXTENDS Integers, Sequences, FiniteSets, TLC

VARIABLES
    active_combats,     \* combat.py:25  combat_id -> CombatState
    uuid_count,         \* uuid4() draws made so far: the n-th draw yields id n
    response,           \* the outcome of the last request: status, detail
    advances,           \* history: per session, the AdvanceTurn calls made since
                        \* the session stood at (round 1, turn 0); -1 = not tracked
    event,              \* history: what the last request did, where the state
                        \* alone does not show it ("" otherwise)
    in_flight           \* the requests a client has sent at the same time and
                        \* not yet collected the answers of: each is a task of
                        \* the event loop, "pending" until its handler has run

vars == <<active_combats, uuid_count, response, advances, event, in_flight>>

----------------------------------------------------------------------------
(* Bounds of the exploration.                                              *)

MaxUuids == 4           \* sessions and combatants ever created
FewUuids == 2           \* the same, where the values of a combatant vary
SomeUuids == 3          \* the same, where sessions stand side by side
MaxInFlight == 2        \* requests a client has in flight at the same time
MaxRound == 3           \* round_number is not advanced past this

Names == {"Goblin Ambush"}
None == "None"

----------------------------------------------------------------------------
(* Pure helpers.                                                           *)

Max(a, b) == IF a >= b THEN a ELSE b
Min(a, b) == IF a <= b THEN a ELSE b

(* `x in lst` for a Python list. *)
Contains(lst, x) == \E i \in 1..Len(lst) : lst[i] = x

(* A search that stops at the first combatant, whatever its id. *)
FindFirst(combatants, combatant_id) ==
    IF \E i \in 1..Len(combatants) : combatants[i].id = combatant_id
    THEN 1
    ELSE 0

(* next((c for c in combatants if c.id == combatant_id), None): the index  *)
(* of the first combatant with that id, 0 when there is none.              *)
FindCombatant(combatants, combatant_id) ==
    IF \E i \in 1..Len(combatants) : combatants[i].id = combatant_id
    THEN CHOOSE i \in 1..Len(combatants) :
            /\ combatants[i].id = combatant_id
            /\ \A j \in 1..(i - 1) : combatants[j].id # combatant_id
    ELSE 0

(* A filter that hands the kept elements back in reverse. *)
FilterReversed(lst, combatant_id) ==
    LET kept == SelectSeq(lst, LAMBDA c : c.id # combatant_id)
    IN  [i \in 1..Len(kept) |-> kept[Len(kept) + 1 - i]]

(* [c for c in lst if keep(c)] *)
RECURSIVE Filter(_, _)
Filter(lst, combatant_id) ==
    IF lst = <<>> THEN <<>>
    ELSE IF Head(lst).id # combatant_id
         THEN <<Head(lst)>> \o Filter(Tail(lst), combatant_id)
         ELSE Filter(Tail(lst), combatant_id)

(* list.remove(x): drops the first occurrence of x. *)
RECURSIVE ListRemove(_, _)
ListRemove(lst, x) ==
    IF lst = <<>> THEN <<>>
    ELSE IF Head(lst) = x THEN Tail(lst)
         ELSE <<Head(lst)>> \o ListRemove(Tail(lst), x)

(* A sort that is not stable: c goes in front of its equals. *)
RECURSIVE InsertDescUnstable(_, _)
InsertDescUnstable(sorted, c) ==
    IF sorted = <<>> THEN <<c>>
    ELSE IF Head(sorted).initiative > c.initiative
         THEN <<Head(sorted)>> \o InsertDescUnstable(Tail(sorted), c)
         ELSE <<c>> \o sorted

(* One step of the stable descending sort: c goes behind every element     *)
(* whose key is greater than or equal to its own.                          *)
RECURSIVE InsertDesc(_, _)
InsertDesc(sorted, c) ==
    IF sorted = <<>> THEN <<c>>
    ELSE IF Head(sorted).initiative >= c.initiative
         THEN <<Head(sorted)>> \o InsertDesc(Tail(sorted), c)
         ELSE <<c>> \o sorted

(* An append that is not followed by the sort. *)
Unsorted(lst) == lst

(* list.sort(key=lambda c: c.initiative, reverse=True): Python's sort is   *)
(* stable, and reverse=True keeps the original order of equal keys.        *)
RECURSIVE SortByInitiativeDesc(_)
SortByInitiativeDesc(lst) ==
    IF lst = <<>> THEN <<>>
    ELSE InsertDesc(SortByInitiativeDesc(SubSeq(lst, 1, Len(lst) - 1)), lst[Len(lst)])

(* max(0, min(hp_current, hp_max)) *)
ClampHP(hp, hp_max) == Max(0, Min(hp, hp_max))

(* What the caller sees: the status code and, for an error, its detail. A  *)
(* success carries the session snapshot, which is the state itself.        *)
Ok == [status |-> 200, detail |-> "OK"]
HTTPException(status, detail) == [status |-> status, detail |-> detail]
Deleted == [status |-> 200, detail |-> "Combat deleted successfully"]
CombatNotFoundAsBadRequest == HTTPException(400, "Combat not found")
CombatantNotFoundAsBadRequest == HTTPException(400, "Combatant not found")
CombatNotFound == HTTPException(404, "Combat not found")
CombatantNotFound == HTTPException(404, "Combatant not found")
NoCombatantsError == HTTPException(400, "No combatants in initiative")

(* A raise leaves every piece of program state as it was. *)
Raise(r) ==
    /\ response' = r
    /\ event' = ""
    /\ UNCHANGED <<active_combats, uuid_count, advances>>

(* A uuid4() that returns an identifier it has returned before. *)
uuid4Repeating == Max(1, uuid_count)

(* A uuid4() of two values, handed out in turn. *)
uuid4Wrapping == (uuid_count % 2) + 1

(* str(uuid.uuid4()): an identifier no earlier draw has produced. *)
uuid4 == uuid_count + 1

(* `combat_id in active_combats` *)
CombatExists(combat_id) == combat_id \in DOMAIN active_combats

(* A `del` that deletes nothing. *)
WithoutNothing(d, k) == d

(* A `del` that empties the dictionary. *)
WithoutAll(d, k) == <<>>

(* `del d[k]` *)
Without(d, k) == [x \in DOMAIN d \ {k} |-> d[x]]

(* A next_turn without the check for an empty list. *)
NoCombatantsUnchecked(combat) == FALSE

(* `not combat.combatants` *)
NoCombatants(combat) == combat.combatants = <<>>

(* A next_turn that wraps one call late. *)
AdvanceTurnLate(combat) ==
    IF combat.current_turn + 1 > Len(combat.combatants)
    THEN [combat EXCEPT !.current_turn = 0, !.round_number = @ + 1]
    ELSE [combat EXCEPT !.current_turn = @ + 1]

(* A next_turn that wraps without counting the round. *)
AdvanceTurnSameRound(combat) ==
    IF combat.current_turn + 1 >= Len(combat.combatants)
    THEN [combat EXCEPT !.current_turn = 0]
    ELSE [combat EXCEPT !.current_turn = @ + 1]

(* A next_turn that counts a round with every turn. *)
AdvanceTurnEveryRound(combat) ==
    IF combat.current_turn + 1 >= Len(combat.combatants)
    THEN [combat EXCEPT !.current_turn = 0, !.round_number = @ + 1]
    ELSE [combat EXCEPT !.current_turn = @ + 1, !.round_number = @ + 1]

(* A next_turn that never wraps. *)
AdvanceTurnNoWrap(combat) == [combat EXCEPT !.current_turn = @ + 1]

(* next_turn's step of the cursor: one further, and past the end back to   *)
(* index 0 of the next round.                                              *)
AdvanceTurn(combat) ==
    IF combat.current_turn + 1 >= Len(combat.combatants)
    THEN [combat EXCEPT !.current_turn = 0, !.round_number = @ + 1]
    ELSE [combat EXCEPT !.current_turn = @ + 1]

(* A remove_combatant that resets only a cursor beyond the new length. *)
AdjustTurnBeyond(current_turn, combatants) ==
    IF current_turn > Len(combatants) /\ combatants # <<>>
    THEN 0
    ELSE current_turn

(* A remove_combatant that leaves the cursor where it was. *)
AdjustTurnNever(current_turn, combatants) == current_turn

(* A remove_combatant that always sends the cursor back to the start. *)
AdjustTurnAlways(current_turn, combatants) == 0

(* A remove_combatant that steps the cursor back with the list. *)
AdjustTurnBack(current_turn, combatants) == Max(0, current_turn - 1)

(* remove_combatant's adjustment of the cursor to the shortened list.      *)
AdjustTurn(current_turn, combatants) ==
    IF current_turn >= Len(combatants) /\ combatants # <<>>
    THEN 0
    ELSE current_turn

(* An add_condition without the membership test. *)
AddConditionAlways(conditions, condition) == Append(conditions, condition)

(* add_condition: appended unless already present. *)
AddConditionTo(conditions, condition) ==
    IF ~Contains(conditions, condition)
    THEN Append(conditions, condition)
    ELSE conditions

(* remove_condition: removed when present. *)
RemoveConditionFrom(conditions, condition) ==
    IF Contains(conditions, condition)
    THEN ListRemove(conditions, condition)
    ELSE conditions

(* History only: after an addition or a removal the count of AdvanceTurn   *)
(* calls starts again, and only from (round 1, turn 0).                    *)
Restart(combat) ==
    IF combat.round_number = 1 /\ combat.current_turn = 0 THEN 0 ELSE -1

----------------------------------------------------------------------------
Init ==
    /\ active_combats = <<>>
    /\ uuid_count = 0
    /\ response = Ok
    /\ advances = <<>>
    /\ event = ""
    /\ in_flight = {}

(* POST /create *)
create_combat(name, now) ==
    LET combat_id == uuid4
        combat == [id |-> combat_id, name |-> name, combatants |-> <<>>,
                   current_turn |-> 0, round_number |-> 1, is_active |-> TRUE,
                   created_at |-> now, updated_at |-> now]
    IN  /\ uuid_count' = uuid_count + 1
        /\ active_combats' = (combat_id :> combat) @@ active_combats
        /\ advances' = (combat_id :> 0) @@ advances
        /\ event' = ""
        /\ response' = Ok

(* POST /add-combatant *)
add_combatant(combat_id, name, initiative, hp_current, hp_max, ac, type, monster_index, now) ==
    IF ~CombatExists(combat_id)
    THEN Raise(CombatNotFound)
    ELSE
    LET combat == active_combats[combat_id]
        combatant == [id |-> uuid4, name |-> name,
                      initiative |-> initiative, hp_current |-> hp_current,
                      hp_max |-> hp_max, ac |-> ac, type |-> type,
                      conditions |-> <<>>, notes |-> "",
                      monster_index |-> monster_index]
        sorted == SortByInitiativeDesc(Append(combat.combatants, combatant))
    IN  /\ uuid_count' = uuid_count + 1
        /\ active_combats' = [active_combats EXCEPT ![combat_id] =
                                 [combat EXCEPT !.combatants = sorted,
                                                !.updated_at = now]]
        /\ advances' = [advances EXCEPT ![combat_id] =
                            Restart(active_combats'[combat_id])]
        /\ response' = Ok
        /\ event' = ""

(* A store that marks a combatant without hit points as Unconscious. *)
StoreAndKnockOut(combat_id, i, combatant, now, kept) ==
    /\ active_combats' = [active_combats EXCEPT ![combat_id] =
                             [@ EXCEPT !.combatants[i] =
                                          IF combatant.hp_current = 0
                                          THEN [combatant EXCEPT !.conditions =
                                                   Append(@, "Unconscious")]
                                          ELSE combatant,
                                       !.updated_at = now]]
    /\ response' = Ok
    /\ event' = ""
    /\ UNCHANGED <<uuid_count, advances>>

(* A store that takes the initiative from the combatant it has edited. *)
StoreLosingInitiative(combat_id, i, combatant, now, kept) ==
    /\ active_combats' = [active_combats EXCEPT ![combat_id] =
                             [@ EXCEPT !.combatants[i] =
                                          [combatant EXCEPT !.initiative = 0],
                                       !.updated_at = now]]
    /\ response' = Ok
    /\ event' = ""
    /\ UNCHANGED <<uuid_count, advances>>

(* The shared tail of update_hp, add_condition and remove_condition: the   *)
(* combatant at index i is replaced and updated_at is stamped.             *)
StoreCombatant(combat_id, i, combatant, now, kept) ==
    /\ active_combats' = [active_combats EXCEPT ![combat_id] =
                             [@ EXCEPT !.combatants[i] = combatant,
                                       !.updated_at = now]]
    /\ response' = Ok
    /\ event' = IF combatant = active_combats[combat_id].combatants[i]
                 THEN kept ELSE ""
    /\ UNCHANGED <<uuid_count, advances>>

(* POST /update-hp *)
update_hp(combat_id, combatant_id, hp_change, now) ==
    IF ~CombatExists(combat_id)
    THEN Raise(CombatNotFound)
    ELSE
    LET combat == active_combats[combat_id]
        i == FindCombatant(combat.combatants, combatant_id)
    IN  IF i = 0
        THEN Raise(CombatantNotFound)
        ELSE StoreCombatant(combat_id, i,
                 [combat.combatants[i] EXCEPT !.hp_current =
                     ClampHP(combat.combatants[i].hp_current + hp_change,
                             combat.combatants[i].hp_max)],
                 now, "")

(* POST /add-condition *)
add_condition(combat_id, combatant_id, condition, now) ==
    IF ~CombatExists(combat_id)
    THEN Raise(CombatNotFound)
    ELSE
    LET combat == active_combats[combat_id]
        i == FindCombatant(combat.combatants, combatant_id)
    IN  IF i = 0
        THEN Raise(CombatantNotFound)
        ELSE StoreCombatant(combat_id, i,
                 [combat.combatants[i] EXCEPT !.conditions =
                     AddConditionTo(combat.combatants[i].conditions, condition)],
                 now, "condition_present")

(* POST /remove-condition *)
remove_condition(combat_id, combatant_id, condition, now) ==
    IF ~CombatExists(combat_id)
    THEN Raise(CombatNotFound)
    ELSE
    LET combat == active_combats[combat_id]
        i == FindCombatant(combat.combatants, combatant_id)
    IN  IF i = 0
        THEN Raise(CombatantNotFound)
        ELSE StoreCombatant(combat_id, i,
                 [combat.combatants[i] EXCEPT !.conditions =
                     RemoveConditionFrom(combat.combatants[i].conditions, condition)],
                 now, "")

(* POST /next-turn *)
next_turn(combat_id, now) ==
    IF ~CombatExists(combat_id)
    THEN Raise(CombatNotFound)
    ELSE
    LET combat == active_combats[combat_id]
    IN  IF NoCombatants(combat)
        THEN Raise(NoCombatantsError)
        ELSE /\ active_combats' = [active_combats EXCEPT ![combat_id] =
                                      [AdvanceTurn(combat) EXCEPT !.updated_at = now]]
             /\ advances' = [advances EXCEPT ![combat_id] =
                                 IF @ >= 0 /\ @ < Len(combat.combatants)
                                 THEN @ + 1 ELSE -1]
             /\ response' = Ok
             /\ event' = ""
             /\ UNCHANGED uuid_count

(* DELETE /{combat_id}/combatant/{combatant_id} *)
remove_combatant(combat_id, combatant_id, now) ==
    IF ~CombatExists(combat_id)
    THEN Raise(CombatNotFound)
    ELSE
    LET combat == active_combats[combat_id]
        remaining == Filter(combat.combatants, combatant_id)
    IN  /\ active_combats' = [active_combats EXCEPT ![combat_id] =
                                 [combat EXCEPT
                                    !.combatants = remaining,
                                    !.current_turn = AdjustTurn(combat.current_turn, remaining),
                                    !.updated_at = now]]
        /\ advances' = [advances EXCEPT ![combat_id] =
                            Restart(active_combats'[combat_id])]
        /\ response' = Ok
        /\ event' = IF combat.current_turn # 0
                        /\ active_combats'[combat_id].current_turn = 0
                     THEN "cursor_reset" ELSE ""
        /\ UNCHANGED uuid_count

(* GET /{combat_id} *)
get_combat(combat_id) ==
    IF ~CombatExists(combat_id)
    THEN Raise(CombatNotFound)
    ELSE /\ response' = Ok
         /\ event' = ""
    /\ UNCHANGED <<active_combats, uuid_count, advances>>

(* GET / *)
list_combats ==
    /\ response' = Ok
    /\ event' = ""
    /\ UNCHANGED <<active_combats, uuid_count, advances>>

(* DELETE /{combat_id} *)
delete_combat(combat_id) ==
    IF ~CombatExists(combat_id)
    THEN Raise(CombatNotFound)
    ELSE /\ active_combats' = Without(active_combats, combat_id)
         /\ advances' = Without(advances, combat_id)
         /\ response' = Deleted
         /\ event' = ""
         /\ UNCHANGED uuid_count

----------------------------------------------------------------------------
(* The requests of one exploration, drawn from the given sets of request   *)
(* values. A create or an add is issued only while ids are left, and a     *)
(* turn of round MaxRound is not advanced. datetime.utcnow() reads the     *)
(* wall clock, which may be set forward or back between two requests: each *)
(* call gets any of `times`.                                               *)
(*                                                                         *)
(* A well-formed client names only the sessions and combatants the server  *)
(* holds; any other client also names an id the server does not hold.      *)

RoundsLeft(combat_id) ==
    (/\ CombatExists(combat_id)
     /\ active_combats[combat_id].combatants # <<>>)
    => active_combats[combat_id].round_number < MaxRound

(* An id that uuid4() never yields. *)
Stranger == 0

(* The readings of the clock: one where time plays no part, two (either of *)
(* them first) where updated_at is looked at.                              *)
OneTime == {100}
AnyTime == {100, 200}
LaterTime == {200}

(* The ids a well-formed client names. *)
LiveCombatIds == DOMAIN active_combats
LiveCombatantIds ==
    UNION {{active_combats[c].combatants[i].id :
              i \in 1..Len(active_combats[c].combatants)} : c \in DOMAIN active_combats}

CreateRequests(max_uuids, times) ==
    \E name \in Names, now \in times :
        uuid_count < max_uuids /\ create_combat(name, now)
                               /\ UNCHANGED in_flight

AddRequests(max_uuids, combat_ids, times, initiatives, hp_currents, hp_maxes) ==
    \E combat_id \in combat_ids, initiative \in initiatives,
       hp_current \in hp_currents, hp_max \in hp_maxes, now \in times :
        /\ uuid_count < max_uuids
        /\ add_combatant(combat_id, "Goblin", initiative, hp_current, hp_max,
                         None, "npc", None, now)
        /\ UNCHANGED in_flight

(* The same endpoint, with the request's `type` (a free str) drawn too. *)
AddTypedRequests(max_uuids, combat_ids, times, types) ==
    \E combat_id \in combat_ids, type \in types, now \in times :
        /\ uuid_count < max_uuids
        /\ add_combatant(combat_id, "Goblin", 12, 1, 1, None, type, None, now)
        /\ UNCHANGED in_flight

UpdateHPRequests(combat_ids, combatant_ids, times, hp_changes) ==
    \E combat_id \in combat_ids, combatant_id \in combatant_ids,
       hp_change \in hp_changes, now \in times :
        update_hp(combat_id, combatant_id, hp_change, now) /\ UNCHANGED in_flight

AddConditionRequests(combat_ids, combatant_ids, times, conditions) ==
    \E combat_id \in combat_ids, combatant_id \in combatant_ids,
       condition \in conditions, now \in times :
        add_condition(combat_id, combatant_id, condition, now) /\ UNCHANGED in_flight

RemoveConditionRequests(combat_ids, combatant_ids, times, conditions) ==
    \E combat_id \in combat_ids, combatant_id \in combatant_ids,
       condition \in conditions, now \in times :
        remove_condition(combat_id, combatant_id, condition, now) /\ UNCHANGED in_flight

NextTurnRequests(combat_ids, times) ==
    \E combat_id \in combat_ids, now \in times :
        RoundsLeft(combat_id) /\ next_turn(combat_id, now) /\ UNCHANGED in_flight

RemoveRequests(combat_ids, combatant_ids, times) ==
    \E combat_id \in combat_ids, combatant_id \in combatant_ids, now \in times :
        remove_combatant(combat_id, combatant_id, now) /\ UNCHANGED in_flight

GetRequests(combat_ids) ==
    \E combat_id \in combat_ids : get_combat(combat_id) /\ UNCHANGED in_flight

ListRequests ==
    list_combats /\ UNCHANGED in_flight

DeleteRequests(combat_ids) ==
    \E combat_id \in combat_ids : delete_combat(combat_id) /\ UNCHANGED in_flight

(* Any client: the ids in use and one that is in nobody's registry. *)
AnyCombatIds == LiveCombatIds \cup {Stranger}
AnyCombatantIds == LiveCombatantIds \cup {Stranger}

(* The turn cursor: combatants of one initiative, any client; the hit      *)
(* points stay at their maximum and one condition comes and goes.          *)
Next ==
    \/ CreateRequests(MaxUuids, OneTime)
    \/ AddRequests(MaxUuids, AnyCombatIds, OneTime, {12}, {1}, {1})
    \/ UpdateHPRequests(AnyCombatIds, AnyCombatantIds, OneTime, {1})
    \/ AddConditionRequests(AnyCombatIds, AnyCombatantIds, OneTime, {"Prone"})
    \/ RemoveConditionRequests(AnyCombatIds, AnyCombatantIds, OneTime, {"Prone"})
    \/ NextTurnRequests(AnyCombatIds, OneTime)
    \/ RemoveRequests(AnyCombatIds, AnyCombatantIds, OneTime)
    \/ GetRequests(AnyCombatIds)
    \/ ListRequests
    \/ DeleteRequests(AnyCombatIds)

Spec == Init /\ [][Next]_vars

(* The initiative order: two initiatives, so that ties and strict order    *)
(* both occur; the client names what exists.                               *)
NextOrder ==
    \/ CreateRequests(MaxUuids, OneTime)
    \/ AddRequests(MaxUuids, LiveCombatIds, OneTime, {12, 18}, {1}, {1})
    \/ UpdateHPRequests(LiveCombatIds, LiveCombatantIds, OneTime, {1})
    \/ AddConditionRequests(LiveCombatIds, LiveCombatantIds, OneTime, {"Prone"})
    \/ RemoveConditionRequests(LiveCombatIds, LiveCombatantIds, OneTime, {"Prone"})
    \/ NextTurnRequests(LiveCombatIds, OneTime)
    \/ RemoveRequests(LiveCombatIds, LiveCombatantIds, OneTime)
    \/ GetRequests(LiveCombatIds)
    \/ ListRequests
    \/ DeleteRequests(LiveCombatIds)

SpecOrder == Init /\ [][NextOrder]_vars

(* Hit points: one combatant, with current and maximum hit points and      *)
(* changes of either sign, negative and inverted values included.          *)
NextHP ==
    \/ CreateRequests(FewUuids, AnyTime)
    \/ AddRequests(FewUuids, LiveCombatIds, AnyTime, {12}, {-1, 1, 3}, {-1, 2})
    \/ UpdateHPRequests(LiveCombatIds, LiveCombatantIds, AnyTime, {-2, 1, 3})
    \/ AddConditionRequests(LiveCombatIds, LiveCombatantIds, AnyTime, {"Prone"})
    \/ RemoveConditionRequests(LiveCombatIds, LiveCombatantIds, AnyTime, {"Prone"})
    \/ NextTurnRequests(LiveCombatIds, AnyTime)
    \/ RemoveRequests(LiveCombatIds, LiveCombatantIds, AnyTime)
    \/ GetRequests(LiveCombatIds)
    \/ ListRequests
    \/ DeleteRequests(LiveCombatIds)

SpecHP == Init /\ [][NextHP]_vars

(* Conditions: one combatant, two labels in either order.                  *)
NextConditions ==
    \/ CreateRequests(FewUuids, AnyTime)
    \/ AddRequests(FewUuids, LiveCombatIds, AnyTime, {12}, {1}, {1})
    \/ UpdateHPRequests(LiveCombatIds, LiveCombatantIds, AnyTime, {1})
    \/ AddConditionRequests(LiveCombatIds, LiveCombatantIds, AnyTime,
                            {"Prone", "Stunned"})
    \/ RemoveConditionRequests(LiveCombatIds, LiveCombatantIds, AnyTime,
                               {"Prone", "Stunned"})
    \/ NextTurnRequests(LiveCombatIds, AnyTime)
    \/ RemoveRequests(LiveCombatIds, LiveCombatantIds, AnyTime)
    \/ GetRequests(LiveCombatIds)
    \/ ListRequests
    \/ DeleteRequests(LiveCombatIds)

SpecConditions == Init /\ [][NextConditions]_vars

(* Failed requests: any client, and a clock that moves between requests.   *)
NextErrors ==
    \/ CreateRequests(FewUuids, AnyTime)
    \/ AddRequests(FewUuids, AnyCombatIds, AnyTime, {12}, {1}, {1})
    \/ UpdateHPRequests(AnyCombatIds, AnyCombatantIds, AnyTime, {1})
    \/ AddConditionRequests(AnyCombatIds, AnyCombatantIds, AnyTime, {"Prone"})
    \/ RemoveConditionRequests(AnyCombatIds, AnyCombatantIds, AnyTime, {"Prone"})
    \/ NextTurnRequests(AnyCombatIds, AnyTime)
    \/ RemoveRequests(AnyCombatIds, AnyCombatantIds, AnyTime)
    \/ GetRequests(AnyCombatIds)
    \/ ListRequests
    \/ DeleteRequests(AnyCombatIds)

SpecErrors == Init /\ [][NextErrors]_vars

(* Sessions side by side: any client; sessions are created at one time and *)
(* every other request arrives at a later one, so that updated_at tells    *)
(* the sessions a request has stamped from those it has not.               *)
NextSessions ==
    \/ CreateRequests(SomeUuids, OneTime)
    \/ AddRequests(SomeUuids, AnyCombatIds, LaterTime, {12}, {1}, {1})
    \/ UpdateHPRequests(AnyCombatIds, AnyCombatantIds, LaterTime, {1})
    \/ AddConditionRequests(AnyCombatIds, AnyCombatantIds, LaterTime, {"Prone"})
    \/ RemoveConditionRequests(AnyCombatIds, AnyCombatantIds, LaterTime, {"Prone"})
    \/ NextTurnRequests(AnyCombatIds, LaterTime)
    \/ RemoveRequests(AnyCombatIds, AnyCombatantIds, LaterTime)
    \/ GetRequests(AnyCombatIds)
    \/ ListRequests
    \/ DeleteRequests(AnyCombatIds)

SpecSessions == Init /\ [][NextSessions]_vars

(* Every id uuid4() has produced so far: the sessions in the registry, the *)
(* deleted ones, and the combatants (which are no sessions).               *)
EverIds == 1..uuid_count

(* Deleted sessions: a client that goes on naming the ids it was once      *)
(* given, whether their sessions and combatants still exist or not.        *)
NextDelete ==
    \/ CreateRequests(FewUuids, AnyTime)
    \/ AddRequests(FewUuids, EverIds, AnyTime, {12}, {1}, {1})
    \/ UpdateHPRequests(EverIds, EverIds, AnyTime, {1})
    \/ AddConditionRequests(EverIds, EverIds, AnyTime, {"Prone"})
    \/ RemoveConditionRequests(EverIds, EverIds, AnyTime, {"Prone"})
    \/ NextTurnRequests(EverIds, AnyTime)
    \/ RemoveRequests(EverIds, EverIds, AnyTime)
    \/ GetRequests(EverIds)
    \/ ListRequests
    \/ DeleteRequests(EverIds)

SpecDelete == Init /\ [][NextDelete]_vars

(* The category tag: one combatant, with the three documented tags and a   *)
(* string that is none of them.                                            *)
NextTypes ==
    \/ CreateRequests(FewUuids, AnyTime)
    \/ AddTypedRequests(FewUuids, LiveCombatIds, AnyTime,
                        {"player", "npc", "monster", "dragon"})
    \/ UpdateHPRequests(LiveCombatIds, LiveCombatantIds, AnyTime, {1})
    \/ AddConditionRequests(LiveCombatIds, LiveCombatantIds, AnyTime, {"Prone"})
    \/ RemoveConditionRequests(LiveCombatIds, LiveCombatantIds, AnyTime, {"Prone"})
    \/ NextTurnRequests(LiveCombatIds, AnyTime)
    \/ RemoveRequests(LiveCombatIds, LiveCombatantIds, AnyTime)
    \/ GetRequests(LiveCombatIds)
    \/ ListRequests
    \/ DeleteRequests(LiveCombatIds)

SpecTypes == Init /\ [][NextTypes]_vars

(* The cursor under additions and removals: one session at a time, with    *)
(* two initiatives; the client names what exists.                          *)
NextTurns ==
    \/ active_combats = <<>> /\ CreateRequests(MaxUuids, OneTime)
    \/ AddRequests(MaxUuids, LiveCombatIds, OneTime, {12, 18}, {1}, {1})
    \/ UpdateHPRequests(LiveCombatIds, LiveCombatantIds, OneTime, {1})
    \/ AddConditionRequests(LiveCombatIds, LiveCombatantIds, OneTime, {"Prone"})
    \/ RemoveConditionRequests(LiveCombatIds, LiveCombatantIds, OneTime, {"Prone"})
    \/ NextTurnRequests(LiveCombatIds, OneTime)
    \/ RemoveRequests(LiveCombatIds, LiveCombatantIds, OneTime)
    \/ GetRequests(LiveCombatIds)
    \/ ListRequests
    \/ DeleteRequests(LiveCombatIds)

SpecTurns == Init /\ [][NextTurns]_vars

----------------------------------------------------------------------------
(* Requests in flight. uvicorn runs the application on one event loop, and *)
(* every request is a task of that loop. A task gives the loop to another  *)
(* task only at an await; the handlers of combat.py are `async def` bodies *)
(* that hold no await, so between the call of a handler and its return or  *)
(* raise no other handler runs: requests that are in flight at the same    *)
(* time are run one whole handler after the other, in an order the client  *)
(* does not control.                                                       *)

(* A request as sent: not yet run, no answer yet. *)
Request(op, combat_id, combatant_id, initiative) ==
    [op |-> op, combat_id |-> combat_id, combatant_id |-> combatant_id,
     initiative |-> initiative, pc |-> "pending", status |-> 0, drawn |-> 0]

(* The same for the two endpoints that take a condition label. *)
LabelRequest(op, combat_id, combatant_id, condition) ==
    [op |-> op, combat_id |-> combat_id, combatant_id |-> combatant_id,
     condition |-> condition, pc |-> "pending", status |-> 0, drawn |-> 0]

(* The requests a client may send in the current state, by endpoint. *)
Menu(ops) ==
    UNION {
      IF "create_combat" \in ops
      THEN {Request("create_combat", 0, 0, 0)} ELSE {},
      IF "add_combatant" \in ops
      THEN {Request("add_combatant", c, 0, i) :
               c \in LiveCombatIds, i \in {12, 18}} ELSE {},
      IF "next_turn" \in ops
      THEN {Request("next_turn", c, 0, 0) :
               c \in {x \in LiveCombatIds :
                         active_combats[x].round_number < MaxRound}} ELSE {},
      IF "remove_combatant" \in ops
      THEN {Request("remove_combatant", c, id, 0) :
               c \in LiveCombatIds, id \in LiveCombatantIds} ELSE {},
      IF "update_hp" \in ops
      THEN {Request("update_hp", c, id, 0) :
               c \in LiveCombatIds, id \in LiveCombatantIds} ELSE {},
      IF "add_condition" \in ops
      THEN {LabelRequest("add_condition", c, id, label) :
               c \in LiveCombatIds, id \in LiveCombatantIds,
               label \in {"Prone", "Stunned"}} ELSE {},
      IF "remove_condition" \in ops
      THEN {LabelRequest("remove_condition", c, id, label) :
               c \in LiveCombatIds, id \in LiveCombatantIds,
               label \in {"Prone", "Stunned"}} ELSE {},
      IF "delete_combat" \in ops
      THEN {Request("delete_combat", c, 0, 0) : c \in LiveCombatIds} ELSE {}}

(* The requests of r's kind that draw a uuid. *)
Draws(requests) ==
    {r \in requests : r.op \in {"create_combat", "add_combatant"}}

(* The client sends a batch of requests at once, while none is in flight. *)
Send(max_uuids, ops) ==
    /\ in_flight = {}
    /\ \E batch \in SUBSET Menu(ops) :
          /\ batch # {}
          /\ Cardinality(batch) <= MaxInFlight
          /\ uuid_count + Cardinality(Draws(batch)) <= max_uuids
          /\ in_flight' = batch
    /\ UNCHANGED <<active_combats, uuid_count, response, advances, event>>

(* The router's dispatch: the handler of the endpoint r was sent to. *)
Handler(r) ==
    \E now \in OneTime :
        CASE r.op = "create_combat" -> create_combat("Goblin Ambush", now)
          [] r.op = "add_combatant" ->
                add_combatant(r.combat_id, "Goblin", r.initiative, 1, 1,
                              None, "npc", None, now)
          [] r.op = "next_turn" -> next_turn(r.combat_id, now)
          [] r.op = "remove_combatant" ->
                remove_combatant(r.combat_id, r.combatant_id, now)
          [] r.op = "update_hp" ->
                update_hp(r.combat_id, r.combatant_id, -1, now)
          [] r.op = "add_condition" ->
                add_condition(r.combat_id, r.combatant_id, r.condition, now)
          [] r.op = "remove_condition" ->
                remove_condition(r.combat_id, r.combatant_id, r.condition, now)
          [] r.op = "delete_combat" -> delete_combat(r.combat_id)

(* The answer to r: its status, and the id drawn for it if one was. *)
Answered(r) ==
    [r EXCEPT !.pc = "done",
              !.status = response'.status,
              !.drawn = IF uuid_count' > uuid_count THEN uuid_count' ELSE 0]

(* A run in which the other pending requests on the same session are       *)
(* answered 200 as well, their writes overwritten by this one's.           *)
RunLosingUpdates(r) ==
    /\ r \in in_flight
    /\ r.pc = "pending"
    /\ Handler(r)
    /\ in_flight' =
          {IF x = r THEN Answered(r)
           ELSE IF x.pc = "pending" /\ x.combat_id = r.combat_id
                THEN [x EXCEPT !.pc = "done", !.status = 200, !.drawn = uuid_count']
                ELSE x : x \in in_flight}

(* A run that is held up for good once a handler has raised, as if the     *)
(* raising handler had kept something locked.                              *)
RunUnlessFailed(r) ==
    /\ response.status < 400
    /\ r \in in_flight
    /\ r.pc = "pending"
    /\ Handler(r)
    /\ in_flight' = (in_flight \ {r}) \cup {Answered(r)}

(* A run whose handler, finding its session gone, puts a session back      *)
(* under the id it was sent for (as a handler would that had fetched the   *)
(* session before the deletion and stored it again afterwards).            *)
RunStoringBack(r) ==
    /\ r \in in_flight
    /\ r.pc = "pending"
    /\ IF r.op # "delete_combat" /\ ~CombatExists(r.combat_id)
       THEN /\ active_combats' =
                  (r.combat_id :> [id |-> r.combat_id, name |-> "Goblin Ambush",
                                   combatants |-> <<>>, current_turn |-> 0,
                                   round_number |-> 1, is_active |-> TRUE,
                                   created_at |-> 100, updated_at |-> 100])
                     @@ active_combats
            /\ advances' = (r.combat_id :> -1) @@ advances
            /\ response' = Ok
            /\ event' = ""
            /\ UNCHANGED uuid_count
       ELSE Handler(r)
    /\ in_flight' = (in_flight \ {r}) \cup {Answered(r)}

(* The event loop runs the task of a pending request: the whole handler,   *)
(* from its first line to its return or raise.                             *)
Run(r) ==
    /\ r \in in_flight
    /\ r.pc = "pending"
    /\ Handler(r)
    /\ in_flight' = (in_flight \ {r}) \cup {Answered(r)}

RunSome == \E r \in in_flight : Run(r)

(* The client has all the answers of its batch. *)
Collect ==
    /\ in_flight # {}
    /\ \A r \in in_flight : r.pc = "done"
    /\ in_flight' = {}
    /\ UNCHANGED <<active_combats, uuid_count, response, advances, event>>

(* Requests on the same session at the same time: one session is created,  *)
(* everything else is sent to it in batches.                               *)
NextConcurrent ==
    \/ active_combats = <<>> /\ CreateRequests(SomeUuids, OneTime)
    \/ Send(SomeUuids, {"add_combatant", "next_turn", "remove_combatant",
                        "update_hp"})
    \/ RunSome
    \/ Collect

SpecConcurrent == Init /\ [][NextConcurrent]_vars

(* Requests on different sessions, and on sessions that come and go, at    *)
(* the same time. The event loop runs every task that is ready to run, so  *)
(* a pending request is not left pending for ever.                         *)
NextLive ==
    \/ Send(FewUuids, {"create_combat", "add_combatant", "next_turn",
                       "delete_combat"})
    \/ RunSome
    \/ Collect

SpecLive == Init /\ [][NextLive]_vars /\ WF_vars(RunSome)

(* One combatant among others: one session at a time with up to two        *)
(* combatants of 2 hit points, which are hurt, healed, and given and       *)
(* relieved of a label one at a time.                                      *)
NextTargets ==
    \/ active_combats = <<>> /\ CreateRequests(SomeUuids, OneTime)
    \/ AddRequests(SomeUuids, LiveCombatIds, OneTime, {12}, {2}, {2})
    \/ UpdateHPRequests(LiveCombatIds, LiveCombatantIds, OneTime, {-1, 1})
    \/ AddConditionRequests(LiveCombatIds, LiveCombatantIds, OneTime, {"Prone"})
    \/ RemoveConditionRequests(LiveCombatIds, LiveCombatantIds, OneTime, {"Prone"})
    \/ NextTurnRequests(LiveCombatIds, OneTime)
    \/ RemoveRequests(LiveCombatIds, LiveCombatantIds, OneTime)
    \/ GetRequests(LiveCombatIds)
    \/ ListRequests
    \/ DeleteRequests(LiveCombatIds)

SpecTargets == Init /\ [][NextTargets]_vars

(* Sessions that are deleted while requests on them are in flight, and     *)
(* named again afterwards: batches that hold a DeleteSession next to the   *)
(* other requests on the session, and, between batches, a client that goes *)
(* on naming every id it was ever given.                                   *)
NextGone ==
    \/ in_flight = {} /\ CreateRequests(FewUuids, OneTime)
    \/ /\ Send(FewUuids, {"add_combatant", "next_turn", "remove_combatant",
                          "update_hp", "add_condition", "remove_condition",
                          "delete_combat"})
       /\ \E r \in in_flight' : r.op = "delete_combat"
    \/ RunSome
    \/ Collect
    \/ in_flight = {} /\ AddRequests(FewUuids, EverIds, OneTime, {12}, {1}, {1})
    \/ in_flight = {} /\ UpdateHPRequests(EverIds, EverIds, OneTime, {1})
    \/ in_flight = {} /\ AddConditionRequests(EverIds, EverIds, OneTime, {"Prone"})
    \/ in_flight = {} /\ RemoveConditionRequests(EverIds, EverIds, OneTime, {"Prone"})
    \/ in_flight = {} /\ NextTurnRequests(EverIds, OneTime)
    \/ in_flight = {} /\ RemoveRequests(EverIds, EverIds, OneTime)

SpecGone == Init /\ [][NextGone]_vars

(* Condition labels: one session at a time whose combatants are given and  *)
(* relieved of two labels, by requests sent in batches (so that the        *)
(* answers of a batch tell which requests have just run).                  *)
NextLabels ==
    \/ active_combats = <<>> /\ CreateRequests(FewUuids, OneTime)
    \/ AddRequests(FewUuids, LiveCombatIds, OneTime, {12}, {1}, {1})
    \/ Send(FewUuids, {"add_condition", "remove_condition"})
    \/ RunSome
    \/ Collect

SpecLabels == Init /\ [][NextLabels]_vars

----------------------------------------------------------------------------
(* The properties.                                                         *)

Combats == DOMAIN active_combats

(* C1: in every reachable state of every session the cursor satisfies      *)
(* 0 <= current_turn < max(1, length(combatants)): a valid index while     *)
(* there are combatants, and 0 while there are none.                       *)
C1_TurnInRange ==
    \A c \in Combats :
        /\ 0 <= active_combats[c].current_turn
        /\ active_combats[c].current_turn
              < Max(1, Len(active_combats[c].combatants))

(* C1's case: a session that was played into its second round (so the      *)
(* cursor had left index 0 and wrapped) and then lost all its combatants.  *)
C1_Witness ==
    \E c \in Combats :
        /\ active_combats[c].combatants = <<>>
        /\ active_combats[c].round_number >= 2
        /\ uuid_count >= 3

(* C2: in every reachable state every combatant of every session has       *)
(* 0 <= hp_current <= hp_max, whatever hit points AddCombatant was given.  *)
C2_HpInRange ==
    \A c \in Combats :
        \A i \in 1..Len(active_combats[c].combatants) :
            /\ 0 <= active_combats[c].combatants[i].hp_current
            /\ active_combats[c].combatants[i].hp_current
                  <= active_combats[c].combatants[i].hp_max

(* The order Scenario A asks for: initiative descending, and among equal   *)
(* initiatives the combatant added earlier (the earlier uuid draw) first.  *)
InInitiativeOrder(combatants) ==
    \A i, j \in 1..Len(combatants) :
        i < j =>
            \/ combatants[i].initiative > combatants[j].initiative
            \/ /\ combatants[i].initiative = combatants[j].initiative
               /\ combatants[i].id < combatants[j].id

(* C3: after every AddCombatant on a session its combatants are sorted by  *)
(* initiative descending, equal initiatives in the order of their          *)
(* addition, whatever additions and removals came before.                  *)
C3_SortedAfterAdd ==
    [][\A c \in Combats, initiative \in {12, 18}, now \in OneTime :
          add_combatant(c, "Goblin", initiative, 1, 1, None, "npc", None, now)
          => /\ Len(active_combats'[c].combatants)
                  = Len(active_combats[c].combatants) + 1
             /\ InInitiativeOrder(active_combats'[c].combatants)]_vars

(* C3's case, Scenario A: initiatives 18, 12, 18 added in that order stand *)
(* as [first 18, second 18, 12].                                           *)
C3_Witness ==
    \E c \in Combats :
        LET l == active_combats[c].combatants
        IN  /\ Len(l) = 3
            /\ <<l[1].initiative, l[2].initiative, l[3].initiative>> = <<18, 18, 12>>
            /\ l[1].id < l[3].id
            /\ l[3].id < l[2].id

(* C4: a successful AdvanceTurn with n >= 1 combatants and a valid cursor  *)
(* steps the cursor by one and keeps the round while cursor + 1 < n, and   *)
(* sets the cursor to 0 and adds one to the round when cursor + 1 = n.     *)
C4_AdvanceTurn ==
    [][\A c \in Combats, now \in OneTime :
          LET old == active_combats[c]
              n == Len(old.combatants)
          IN  (n >= 1 /\ 0 <= old.current_turn /\ old.current_turn < n
                 /\ next_turn(c, now))
              => LET new == active_combats'[c]
                 IN  /\ response' = [status |-> 200, detail |-> "OK"]
                     /\ old.current_turn + 1 < n
                          => /\ new.current_turn = old.current_turn + 1
                             /\ new.round_number = old.round_number
                     /\ old.current_turn + 1 = n
                          => /\ new.current_turn = 0
                             /\ new.round_number = old.round_number + 1]_vars

(* C4's case, Scenario B: three combatants, and the third AdvanceTurn has  *)
(* taken the cursor from index 2 to index 0 of round 2.                    *)
C4_Witness ==
    \E c \in Combats :
        /\ Len(active_combats[c].combatants) = 3
        /\ advances[c] = 3
        /\ active_combats[c].current_turn = 0
        /\ active_combats[c].round_number = 2

(* C5: from (round 1, turn 0) with n >= 1 combatants and no addition or    *)
(* removal in between, the k-th AdvanceTurn (k < n) leaves the cursor at   *)
(* index k in round 1, and the n-th leaves it at index 0 in round 2.       *)
C5_RoundProgression ==
    \A c \in Combats :
        LET n == Len(active_combats[c].combatants)
            k == advances[c]
        IN  (n >= 1 /\ k >= 0) =>
               /\ k <= n
               /\ k < n => /\ active_combats[c].current_turn = k
                           /\ active_combats[c].round_number = 1
               /\ k = n => /\ active_combats[c].current_turn = 0
                           /\ active_combats[c].round_number = 2

(* C5's case: two AdvanceTurn calls in a row on two combatants.            *)
C5_Witness ==
    \E c \in Combats :
        /\ Len(active_combats[c].combatants) = 2
        /\ advances[c] = 2
        /\ active_combats[c].round_number = 2

(* C6: AdvanceTurn on an existing session without combatants fails with    *)
(* 400 "No combatants in initiative" and changes nothing: the session's    *)
(* cursor, round, combatants and updated_at, and the registry, stay.       *)
C6_AdvanceEmptyFails ==
    [][\A c \in Combats, now \in AnyTime :
          (active_combats[c].combatants = <<>> /\ next_turn(c, now))
          => /\ response' = [status |-> 400,
                              detail |-> "No combatants in initiative"]
             /\ active_combats' = active_combats
             /\ uuid_count' = uuid_count]_vars

(* C6's case: the last request was answered 400 while a session without    *)
(* combatants, last stamped at the earlier time, is in the registry.       *)
C6_Witness ==
    /\ response.status = 400
    /\ \E c \in Combats :
          /\ active_combats[c].combatants = <<>>
          /\ active_combats[c].updated_at = 100
          /\ active_combats[c].current_turn = 0

(* The combatant of session c with the given id (c holds one). *)
CombatantOf(combats, c, combatant_id) ==
    combats[c].combatants[FindCombatant(combats[c].combatants, combatant_id)]

HasCombatant(c, combatant_id) ==
    FindCombatant(active_combats[c].combatants, combatant_id) # 0

(* C7: UpdateHP(delta) on an existing combatant sets hp_current to         *)
(* max(0, min(hp_current + delta, hp_max)); a delta that would take it     *)
(* below 0 gives exactly 0 and one that would take it above hp_max gives   *)
(* exactly hp_max, for every delta and every combatant.                    *)
C7_UpdateHPClamps ==
    [][\A c \in Combats, id \in 1..uuid_count, delta \in {-2, 1, 3},
         now \in AnyTime :
          (HasCombatant(c, id) /\ update_hp(c, id, delta, now))
          => LET old == CombatantOf(active_combats, c, id)
                 new == CombatantOf(active_combats', c, id)
             IN  /\ new.hp_current
                       = Max(0, Min(old.hp_current + delta, old.hp_max))
                 /\ old.hp_current + delta < 0 => new.hp_current = 0
                 /\ old.hp_current + delta > old.hp_max
                       => new.hp_current = old.hp_max]_vars

(* C8: after RemoveCombatant has removed a combatant, a cursor that is at  *)
(* or past the new length of a still non-empty list is 0; removing the     *)
(* last element while the cursor is on it resets the cursor to 0, and the  *)
(* cursor is never left out of range.                                      *)
C8_RemoveResetsCursor ==
    [][\A c \in Combats, id \in 1..uuid_count, now \in OneTime :
          (HasCombatant(c, id) /\ remove_combatant(c, id, now))
          => LET old == active_combats[c]
                 new == active_combats'[c]
                 n == Len(new.combatants)
             IN  /\ n = Len(old.combatants) - 1
                 /\ (old.current_turn >= n /\ n > 0) => new.current_turn = 0
                 /\ (/\ FindCombatant(old.combatants, id) = Len(old.combatants)
                      /\ old.current_turn = Len(old.combatants) - 1
                      /\ n > 0) => new.current_turn = 0
                 /\ n > 0 => new.current_turn < n]_vars

(* C8's case, Scenario D: the last request removed a combatant and took    *)
(* the cursor from a later index back to 0; two combatants remain.         *)
C8_Witness ==
    /\ event = "cursor_reset"
    /\ \E c \in Combats :
          /\ Len(active_combats[c].combatants) = 2
          /\ active_combats[c].current_turn = 0

(* C9: AddCondition and RemoveCondition are idempotent and never fail on   *)
(* an existing combatant: adding a label that is present, and removing one *)
(* that is absent, leave the conditions as they are; after an add the      *)
(* label is present, so a second identical add changes nothing.            *)
C9_ConditionsIdempotent ==
    [][\A c \in Combats, id \in 1..uuid_count,
         label \in {"Prone", "Stunned"}, now \in AnyTime :
          HasCombatant(c, id)
          => LET old == CombatantOf(active_combats, c, id).conditions
                 new == CombatantOf(active_combats', c, id).conditions
             IN  /\ add_condition(c, id, label, now)
                       => /\ response' = [status |-> 200, detail |-> "OK"]
                          /\ Contains(new, label)
                          /\ Contains(old, label) => new = old
                 /\ remove_condition(c, id, label, now)
                       => /\ response' = [status |-> 200, detail |-> "OK"]
                          /\ ~Contains(old, label) => new = old]_vars

(* C9's case: the last request added a label to a combatant that carried   *)
(* it already, next to a second label, and was answered 200.               *)
C9_Witness ==
    /\ event = "condition_present"
    /\ response.status = 200
    /\ \E c \in Combats :
          \E i \in 1..Len(active_combats[c].combatants) :
              Len(active_combats[c].combatants[i].conditions) = 2

(* C10: every operation that names a session id which is not in the        *)
(* registry fails with 404 "Combat not found", whatever else the request   *)
(* says, and leaves the registry and every session unchanged.              *)
C10_UnknownSessionNotFound ==
    [][\A c \in {Stranger} \ Combats,
         id \in LiveCombatantIds \cup {Stranger}, now \in AnyTime :
          (\/ get_combat(c)
           \/ add_combatant(c, "Goblin", 12, 1, 1, None, "npc", None, now)
           \/ remove_combatant(c, id, now)
           \/ next_turn(c, now)
           \/ update_hp(c, id, 1, now)
           \/ add_condition(c, id, "Prone", now)
           \/ remove_condition(c, id, "Prone", now)
           \/ delete_combat(c))
          => /\ response' = [status |-> 404, detail |-> "Combat not found"]
             /\ active_combats' = active_combats
             /\ uuid_count' = uuid_count]_vars

(* C10's case: the last request was answered 404 "Combat not found" while  *)
(* the registry holds a session with a combatant.                          *)
C10_Witness ==
    /\ response = [status |-> 404, detail |-> "Combat not found"]
    /\ \E c \in Combats : active_combats[c].combatants # <<>>

(* C11: UpdateHP, AddCondition and RemoveCondition on an existing session, *)
(* naming a combatant id that is not in that session, fail with 404        *)
(* "Combatant not found" and change nothing: every combatant, the cursor,  *)
(* the round and updated_at of the session stay as they were.              *)
C11_UnknownCombatantNotFound ==
    [][\A c \in Combats, id \in AnyCombatantIds, now \in AnyTime :
          (/\ ~HasCombatant(c, id)
           /\ \/ update_hp(c, id, 1, now)
              \/ add_condition(c, id, "Prone", now)
              \/ remove_condition(c, id, "Prone", now))
          => /\ response' = [status |-> 404, detail |-> "Combatant not found"]
             /\ active_combats' = active_combats
             /\ uuid_count' = uuid_count]_vars

(* C11's case: the last request was answered 404 "Combatant not found" by  *)
(* a session that holds a combatant, stamped at the earlier time.          *)
C11_Witness ==
    /\ response = [status |-> 404, detail |-> "Combatant not found"]
    /\ \E c \in Combats :
          /\ active_combats[c].combatants # <<>>
          /\ active_combats[c].updated_at = 100

(* C12: RemoveCombatant on an existing session, naming a combatant id that *)
(* is not in the session, succeeds and leaves the combatants, the cursor   *)
(* and the round as they were, in every reachable state.                   *)
C12_RemoveAbsentIsNoOp ==
    [][\A c \in Combats, id \in 0..uuid_count, now \in AnyTime :
          (~HasCombatant(c, id) /\ remove_combatant(c, id, now))
          => /\ response' = [status |-> 200, detail |-> "OK"]
             /\ active_combats'[c].combatants = active_combats[c].combatants
             /\ active_combats'[c].current_turn = active_combats[c].current_turn
             /\ active_combats'[c].round_number = active_combats[c].round_number
       ]_vars

(* C12's case: one session, two combatants, cursor on the second in round  *)
(* 1: both were added before the one AdvanceTurn, which left the count of  *)
(* advances at 1; no id is left for another addition, both combatants are  *)
(* still there, so the count was reset by a removal that removed nothing.  *)
C12_Witness ==
    /\ response = [status |-> 200, detail |-> "OK"]
    /\ uuid_count = 3
    /\ \E c \in Combats :
          /\ Len(active_combats[c].combatants) = 2
          /\ active_combats[c].current_turn = 1
          /\ active_combats[c].round_number = 1
          /\ advances[c] = -1

(* The ids of the combatants of the sessions in `combats`. *)
CombatantIdsIn(combats) ==
    UNION {{combats[c].combatants[i].id : i \in 1..Len(combats[c].combatants)} :
             c \in DOMAIN combats}

(* C13: DeleteSession on an existing session answers 200 and takes the     *)
(* session and all its combatants out of the registry, so that no listing  *)
(* contains it; an id that is not in the registry never comes (back) into  *)
(* it, and every operation naming such an id, a second DeleteSession       *)
(* included, fails with 404 "Combat not found" and changes nothing.        *)
C13_DeleteRemovesSession ==
    [][\A c \in EverIds :
          /\ (c \in Combats /\ delete_combat(c))
             => /\ response' = [status |-> 200,
                                 detail |-> "Combat deleted successfully"]
                /\ c \notin DOMAIN active_combats'
                /\ \A b \in DOMAIN active_combats' : active_combats'[b].id # c
                /\ CombatantIdsIn(active_combats')
                      = CombatantIdsIn(active_combats)
                           \ CombatantIdsIn([x \in {c} |-> active_combats[c]])
          /\ c \notin Combats
             => /\ c \notin DOMAIN active_combats'
                /\ \A id \in EverIds, now \in AnyTime :
                      (\/ get_combat(c)
                       \/ add_combatant(c, "Goblin", 12, 1, 1, None, "npc", None, now)
                       \/ remove_combatant(c, id, now)
                       \/ next_turn(c, now)
                       \/ update_hp(c, id, 1, now)
                       \/ add_condition(c, id, "Prone", now)
                       \/ remove_condition(c, id, "Prone", now)
                       \/ delete_combat(c))
                      => /\ response' = [status |-> 404,
                                          detail |-> "Combat not found"]
                         /\ active_combats' = active_combats
                         /\ uuid_count' = uuid_count]_vars

(* C13's case: the one session ever created (id 1) has been deleted, and   *)
(* the request after that, which can only have named id 1, was answered    *)
(* 404 "Combat not found".                                                 *)
C13_Witness ==
    /\ uuid_count = 1
    /\ Combats = {}
    /\ response = [status |-> 404, detail |-> "Combat not found"]

(* Session b is in the registry after the step, exactly as it was. *)
Untouched(b) ==
    /\ b \in DOMAIN active_combats'
    /\ active_combats'[b] = active_combats[b]

(* C14: a request addressed to session a, whatever its outcome (200, 404   *)
(* or 400), leaves every other session of the registry in the registry and *)
(* exactly as it was; a CreateSession and a listing leave every session so. *)
C14_SessionIsolation ==
    [][/\ \A a \in AnyCombatIds, id \in AnyCombatantIds, now \in AnyTime :
             (\/ get_combat(a)
              \/ add_combatant(a, "Goblin", 12, 1, 1, None, "npc", None, now)
              \/ remove_combatant(a, id, now)
              \/ next_turn(a, now)
              \/ update_hp(a, id, 1, now)
              \/ add_condition(a, id, "Prone", now)
              \/ remove_condition(a, id, "Prone", now)
              \/ delete_combat(a))
             => \A b \in Combats \ {a} : Untouched(b)
       /\ \A name \in Names, now \in AnyTime :
             (create_combat(name, now) \/ list_combats)
             => \A b \in Combats : Untouched(b)]_vars

(* C14's case: session 1 is as it was created, at the earlier time, while  *)
(* session 2, created after it, was given a combatant at the later time;   *)
(* the last request, an AdvanceTurn on session 1, failed with 400.         *)
C14_Witness ==
    /\ Combats = {1, 2}
    /\ active_combats[1].combatants = <<>>
    /\ active_combats[1].current_turn = 0
    /\ active_combats[1].round_number = 1
    /\ active_combats[1].updated_at = 100
    /\ active_combats[2].updated_at = 200
    /\ Len(active_combats[2].combatants) = 1
    /\ response.status = 400

C16_EveryRequestCompletes ==
    /\ [](\A r \in in_flight : r.pc = "pending" => ENABLED Run(r))
    /\ (\E r \in in_flight : r.pc = "pending")
          ~> (in_flight # {} /\ \A r \in in_flight : r.pc = "done")

(* C16's case: an AdvanceTurn and an AddCombatant on the same session were *)
(* in flight together; the AdvanceTurn ran first and failed with 400 (the  *)
(* session was empty), and the AddCombatant after it was answered 200.     *)
C16_Witness ==
    \E a, b \in in_flight :
        /\ a.combat_id = b.combat_id
        /\ a.op = "next_turn" /\ a.pc = "done" /\ a.status = 400
        /\ b.op = "add_combatant" /\ b.pc = "done" /\ b.status = 200

(* C17: CreateSession always succeeds (200) and puts into the registry one *)
(* new session, under an id that no session of the registry has, with no   *)
(* combatants, current_turn 0, round_number 1 and is_active true; the      *)
(* sessions that were in the registry are all still there, unchanged.      *)
C17_CreateSession ==
    [][\A name \in Names, now \in AnyTime :
          create_combat(name, now)
          => /\ response' = [status |-> 200, detail |-> "OK"]
             /\ \E new \in DOMAIN active_combats' \ Combats :
                   /\ DOMAIN active_combats' = Combats \cup {new}
                   /\ active_combats'[new].id = new
                   /\ active_combats'[new].name = name
                   /\ active_combats'[new].combatants = <<>>
                   /\ active_combats'[new].current_turn = 0
                   /\ active_combats'[new].round_number = 1
                   /\ active_combats'[new].is_active = TRUE
             /\ \A b \in Combats : Untouched(b)]_vars

(* C17's case: session 3 has just been created (it is as new and the      *)
(* request was answered 200) next to session 1, which has a combatant.     *)
C17_Witness ==
    /\ Combats = {1, 3}
    /\ Len(active_combats[1].combatants) = 1
    /\ active_combats[3].combatants = <<>>
    /\ active_combats[3].current_turn = 0
    /\ active_combats[3].round_number = 1
    /\ active_combats[3].is_active
    /\ response = [status |-> 200, detail |-> "OK"]

(* The step is one of the requests on session c that edit its combatants:  *)
(* AddCombatant, UpdateHP, AddCondition or RemoveCondition.                *)
EditsCombatants(c) ==
    \E id \in AnyCombatantIds, now \in AnyTime :
        \/ add_combatant(c, "Goblin", 12, 1, 1, None, "npc", None, now)
        \/ update_hp(c, id, 1, now)
        \/ add_condition(c, id, "Prone", now)
        \/ remove_condition(c, id, "Prone", now)

(* The step is a RemoveCombatant on session c. *)
Removes(c) ==
    \E id \in AnyCombatantIds, now \in AnyTime : remove_combatant(c, id, now)

(* C18 as stated: AddCombatant, RemoveCombatant, UpdateHP, AddCondition    *)
(* and RemoveCondition never change the value of current_turn.             *)
C18_OnlyAdvanceMovesCursor ==
    [][\A c \in Combats :
          (EditsCombatants(c) \/ Removes(c))
          => active_combats'[c].current_turn = active_combats[c].current_turn
       ]_vars

(* C18, amended: AddCombatant, UpdateHP, AddCondition and RemoveCondition  *)
(* never change the value of current_turn; RemoveCombatant changes it in   *)
(* one case only, setting it to 0 when it is at or beyond the length of    *)
(* the list that remains and that list is not empty.                       *)
C18_OnlyAdvanceAndResetMoveCursor ==
    [][\A c \in Combats :
          /\ EditsCombatants(c)
             => active_combats'[c].current_turn = active_combats[c].current_turn
          /\ Removes(c)
             => IF /\ active_combats'[c].combatants # <<>>
                   /\ active_combats[c].current_turn
                         >= Len(active_combats'[c].combatants)
                THEN active_combats'[c].current_turn = 0
                ELSE active_combats'[c].current_turn
                        = active_combats[c].current_turn]_vars

(* C18's case: in round 1 a RemoveCombatant has just taken the cursor from *)
(* a later index to 0; one combatant remains.                              *)
C18_Witness ==
    /\ event = "cursor_reset"
    /\ \E c \in Combats :
          /\ Len(active_combats[c].combatants) = 1
          /\ active_combats[c].current_turn = 0
          /\ active_combats[c].round_number = 1

(* C19: round_number starts at 1 and changes only in AdvanceTurn, by +1,   *)
(* in the step that takes the cursor from the last index to 0; no other    *)
(* request on the session changes it (RemoveCombatant's reset of the       *)
(* cursor included), so it never decreases.                                *)
C19_RoundOnlyOnWrap ==
    [][/\ \A c \in DOMAIN active_combats' : active_combats'[c].round_number >= 1
       /\ \A c \in Combats :
             /\ (EditsCombatants(c) \/ Removes(c) \/ get_combat(c))
                => active_combats'[c].round_number
                      = active_combats[c].round_number
             /\ (\E now \in AnyTime : next_turn(c, now))
                => IF /\ active_combats[c].combatants # <<>>
                      /\ active_combats[c].current_turn + 1
                            = Len(active_combats[c].combatants)
                   THEN /\ active_combats'[c].round_number
                              = active_combats[c].round_number + 1
                        /\ active_combats'[c].current_turn = 0
                   ELSE active_combats'[c].round_number
                           = active_combats[c].round_number
             /\ c \in DOMAIN active_combats'
                => active_combats'[c].round_number
                      >= active_combats[c].round_number]_vars

(* C19's case: in round 2 a RemoveCombatant has just taken the cursor from *)
(* a later index to 0, and the round is still 2.                           *)
C19_Witness ==
    /\ event = "cursor_reset"
    /\ \E c \in Combats :
          /\ Len(active_combats[c].combatants) = 1
          /\ active_combats[c].current_turn = 0
          /\ active_combats[c].round_number = 2

(* C20: in every reachable state the category tag of every combatant of    *)
(* every session is "player", "npc" or "monster", whatever tag the         *)
(* AddCombatant request carried.                                           *)
C20_TypeIsCategory ==
    \A c \in Combats :
        \A i \in 1..Len(active_combats[c].combatants) :
            active_combats[c].combatants[i].type \in {"player", "npc", "monster"}


(* C21: AddCombatant keeps the value of current_turn and does not re-point *)
(* it. In a session with a combatant under a valid cursor, adding a        *)
(* combatant of strictly greater initiative than the one under the cursor  *)
(* leaves current_turn as it was; the combatant that held the turn stands  *)
(* one index later, and the one now at index current_turn is another.      *)
C21_AddKeepsCursorValue ==
    [][\A c \in Combats, initiative \in {12, 18}, now \in OneTime :
          LET old == active_combats[c]
              k == old.current_turn
          IN  (/\ old.combatants # <<>>
               /\ 0 <= k /\ k < Len(old.combatants)
               /\ initiative > old.combatants[k + 1].initiative
               /\ add_combatant(c, "Goblin", initiative, 1, 1, None, "npc", None, now))
              => LET new == active_combats'[c]
                 IN  /\ response' = [status |-> 200, detail |-> "OK"]
                     /\ new.current_turn = k
                     /\ new.combatants[k + 2] = old.combatants[k + 1]
                     /\ new.combatants[k + 1].id # old.combatants[k + 1].id]_vars

(* C21's case: two combatants of initiative 12 (ids 2 and 3) were added,   *)
(* one AdvanceTurn put the cursor on the second, and then a combatant of   *)
(* initiative 18 (id 4) was added: the cursor is still 1 and now points to *)
(* the first of the two. The round is 1, so the cursor never wrapped, and  *)
(* the count of advances was dropped by an addition made off index 0.      *)
C21_Witness ==
    /\ uuid_count = 4
    /\ \E c \in Combats :
          LET l == active_combats[c].combatants
          IN  /\ Len(l) = 3
              /\ <<l[1].id, l[2].id, l[3].id>> = <<4, 2, 3>>
              /\ <<l[1].initiative, l[2].initiative, l[3].initiative>> = <<18, 12, 12>>
              /\ active_combats[c].current_turn = 1
              /\ active_combats[c].round_number = 1
              /\ advances[c] = -1

(* C22: RemoveCombatant never decrements current_turn. When the removed    *)
(* combatant stood at an index strictly below current_turn and             *)
(* current_turn is less than the new length, current_turn keeps its value  *)
(* and the turn is with the combatant that stood at current_turn + 1; the  *)
(* only change RemoveCombatant makes to current_turn is the reset to 0 of  *)
(* a cursor at or beyond the new length of a list that is not empty.       *)
C22_RemoveNeverDecrements ==
    [][\A c \in Combats, id \in LiveCombatantIds, now \in OneTime :
          remove_combatant(c, id, now)
          => LET old == active_combats[c]
                 new == active_combats'[c]
                 k == old.current_turn
                 j == FindCombatant(old.combatants, id) - 1
             IN  /\ (0 <= j /\ j < k /\ k < Len(new.combatants))
                    => /\ new.current_turn = k
                       /\ new.combatants[k + 1] = old.combatants[k + 2]
                 /\ new.current_turn # k
                    => /\ new.current_turn = 0
                       /\ new.combatants # <<>>
                       /\ k >= Len(new.combatants)]_vars

(* C22's case: three combatants were added (ids 2, 3, 4) and the first was *)
(* removed from index 0 while the cursor stood at 1: the cursor is still 1 *)
(* and the turn is with combatant 4. The round is 1 and the count of       *)
(* advances was dropped, so the removal was made off index 0 and the       *)
(* cursor has not been reset and advanced again since.                     *)
C22_Witness ==
    /\ uuid_count = 4
    /\ event = ""
    /\ \E c \in Combats :
          LET l == active_combats[c].combatants
          IN  /\ Len(l) = 2
              /\ <<l[1].id, l[2].id>> = <<3, 4>>
              /\ <<l[1].initiative, l[2].initiative>> = <<12, 12>>
              /\ active_combats[c].current_turn = 1
              /\ active_combats[c].round_number = 1
              /\ advances[c] = -1

(* C23: UpdateHP changes only the hp_current of the combatant it names and *)
(* the session's updated_at. Nothing happens by itself when HP reaches 0:  *)
(* the combatant stays in the list at its index, with the conditions it    *)
(* had (no Unconscious is added), and current_turn, round_number and the   *)
(* active flag of the session stay as they were.                           *)
C23_UpdateHPOnlyChangesHP ==
    [][\A c \in Combats, id \in 1..uuid_count, delta \in {-2, 1, 3},
         now \in AnyTime :
          (HasCombatant(c, id) /\ update_hp(c, id, delta, now))
          => LET old == active_combats[c]
                 new == active_combats'[c]
                 i == FindCombatant(old.combatants, id)
             IN  /\ response' = [status |-> 200, detail |-> "OK"]
                 /\ DOMAIN active_combats' = DOMAIN active_combats
                 /\ [new EXCEPT !.combatants = <<>>, !.updated_at = 0]
                       = [old EXCEPT !.combatants = <<>>, !.updated_at = 0]
                 /\ Len(new.combatants) = Len(old.combatants)
                 /\ \A j \in 1..Len(old.combatants) :
                       [new.combatants[j] EXCEPT !.hp_current = 0]
                          = [old.combatants[j] EXCEPT !.hp_current = 0]
                 /\ \A j \in 1..Len(old.combatants) \ {i} :
                       new.combatants[j] = old.combatants[j]
                 /\ new.combatants[i].conditions = old.combatants[i].conditions
                 /\ new.current_turn = old.current_turn
                 /\ new.round_number = old.round_number
                 /\ new.is_active = old.is_active]_vars

(* C23's case: a combatant that was added with hit points (1 or 3 of at    *)
(* most 2) and was Prone has been taken to 0 by UpdateHP; it is still in   *)
(* the list, still Prone and nothing else, and the session is active in    *)
(* round 1 with the cursor at 0.                                           *)
C23_Witness ==
    /\ response = [status |-> 200, detail |-> "OK"]
    /\ \E c \in Combats :
          /\ Len(active_combats[c].combatants) = 1
          /\ active_combats[c].combatants[1].hp_current = 0
          /\ active_combats[c].combatants[1].hp_max = 2
          /\ active_combats[c].combatants[1].conditions = <<"Prone">>
          /\ active_combats[c].is_active
          /\ active_combats[c].current_turn = 0
          /\ active_combats[c].round_number = 1

(* No label stands twice in the list. *)
NoDuplicates(conditions) ==
    \A i, j \in 1..Len(conditions) : conditions[i] = conditions[j] => i = j

(* C24: after every request, whatever AddCondition and RemoveCondition     *)
(* calls came before, no combatant's conditions hold the same label twice; *)
(* and after a successful RemoveCondition(label) the label is not among    *)
(* the conditions of the combatant it named at all.                        *)
C24_NoDuplicateConditions ==
    [][/\ \A c \in DOMAIN active_combats' :
             \A i \in 1..Len(active_combats'[c].combatants) :
                 NoDuplicates(active_combats'[c].combatants[i].conditions)
       /\ \A c \in Combats, id \in LiveCombatantIds,
             label \in {"Prone", "Stunned"}, now \in OneTime :
             (HasCombatant(c, id) /\ remove_condition(c, id, label, now))
             => /\ response' = [status |-> 200, detail |-> "OK"]
                /\ ~Contains(CombatantOf(active_combats', c, id).conditions,
                             label)]_vars

(* C24's case: an AddCondition(Prone) and a RemoveCondition(Prone) on the  *)
(* same combatant were in flight together and both are answered 200; the   *)
(* combatant is Stunned and not Prone, so the removal ran after the        *)
(* addition, found the label, and left none of it.                         *)
C24_Witness ==
    \E a, b \in in_flight :
        /\ a.op = "add_condition" /\ a.pc = "done" /\ a.status = 200
        /\ b.op = "remove_condition" /\ b.pc = "done" /\ b.status = 200
        /\ a.condition = "Prone" /\ b.condition = "Prone"
        /\ a.combat_id = b.combat_id /\ a.combatant_id = b.combatant_id
        /\ a.combat_id \in Combats
        /\ HasCombatant(a.combat_id, a.combatant_id)
        /\ CombatantOf(active_combats, a.combat_id, a.combatant_id).conditions
              = <<"Stunned">>

(* The ids of the combatants session c holds in `combats`. *)
CombatantIdsOf(combats, c) ==
    {combats[c].combatants[i].id : i \in 1..Len(combats[c].combatants)}

(* C25: combatant identifiers are unique and a session owns its combatants *)
(* exclusively. After every request no combatant id stands twice in one    *)
(* session's list or in the lists of two sessions, and no request moves or *)
(* copies a combatant between sessions: a combatant id that a session      *)
(* holds after a request was in that same session before it, or has just   *)
(* been drawn.                                                             *)
C25_CombatantIdsUnique ==
    [][/\ \A c \in DOMAIN active_combats' :
             \A i, j \in 1..Len(active_combats'[c].combatants) :
                 active_combats'[c].combatants[i].id
                    = active_combats'[c].combatants[j].id => i = j
       /\ \A b, c \in DOMAIN active_combats' :
             b # c => CombatantIdsOf(active_combats', b)
                         \cap CombatantIdsOf(active_combats', c) = {}
       /\ \A c \in DOMAIN active_combats' :
             \A id \in CombatantIdsOf(active_combats', c) :
                 \/ c \in Combats /\ id \in CombatantIdsOf(active_combats, c)
                 \/ id \notin EverIds /\ id \notin CombatantIdsIn(active_combats)
      ]_vars

(* C25's case: two sessions side by side, each with one combatant of its   *)
(* own, after a request that named a session the registry does not hold.   *)
C25_Witness ==
    /\ uuid_count = 4
    /\ Cardinality(Combats) = 2
    /\ \A c \in Combats : Len(active_combats[c].combatants) = 1
    /\ Cardinality(CombatantIdsIn(active_combats)) = 2
    /\ response = [status |-> 404, detail |-> "Combat not found"]

(* The ids of a list of combatants, in the order of the list. *)
IdsInOrder(combatants) == [i \in 1..Len(combatants) |-> combatants[i].id]

(* C26: after every request, not only after AddCombatant, every session's  *)
(* combatants are sorted by initiative descending, equal initiatives in    *)
(* the order of their addition. RemoveCombatant keeps the remaining        *)
(* combatants in the order they had, and AdvanceTurn, UpdateHP,            *)
(* AddCondition and RemoveCondition leave the members and their order as   *)
(* they were.                                                              *)
C26_AlwaysInInitiativeOrder ==
    [][/\ \A c \in DOMAIN active_combats' :
             InInitiativeOrder(active_combats'[c].combatants)
       /\ \A c \in Combats, id \in LiveCombatantIds, now \in OneTime :
             LET old == active_combats[c].combatants
                 new == active_combats'[c].combatants
                 k == FindCombatant(old, id)
             IN  /\ remove_combatant(c, id, now)
                    => new = IF k = 0 THEN old
                             ELSE SubSeq(old, 1, k - 1)
                                     \o SubSeq(old, k + 1, Len(old))
                 /\ (\/ next_turn(c, now)
                     \/ update_hp(c, id, 1, now)
                     \/ add_condition(c, id, "Prone", now)
                     \/ remove_condition(c, id, "Prone", now))
                    => IdsInOrder(new) = IdsInOrder(old)]_vars

(* C26's case: of three combatants added (ids 2, 3, 4) the second has been *)
(* removed; the two that remain have the same initiative and stand in the  *)
(* order of their addition, in a session that has been advanced into       *)
(* round 2 and whose first combatant is Prone.                             *)
C26_Witness ==
    /\ uuid_count = 4
    /\ \E c \in Combats :
          LET l == active_combats[c].combatants
          IN  /\ Len(l) = 2
              /\ <<l[1].id, l[2].id>> = <<2, 4>>
              /\ <<l[1].initiative, l[2].initiative>> = <<12, 12>>
              /\ l[1].conditions = <<"Prone">>
              /\ active_combats[c].round_number = 2

(* C27: every successful AdvanceTurn leaves a valid cursor,                *)
(* 0 <= current_turn < length(combatants), whatever current_turn was when  *)
(* it was called: in every step of the program, and also from any value    *)
(* from 0 up to beyond the length of the list (the cursor is only ever set *)
(* to 0 or stepped by one, so it is never negative).                       *)
C27_AdvanceLeavesValidCursor ==
    [][\A c \in Combats, now \in OneTime :
          /\ (next_turn(c, now) /\ response'.status = 200)
             => /\ 0 <= active_combats'[c].current_turn
                /\ active_combats'[c].current_turn
                      < Len(active_combats'[c].combatants)
          /\ active_combats[c].combatants # <<>>
             => \A k \in 0..(Len(active_combats[c].combatants) + 2) :
                   LET after == AdvanceTurn([active_combats[c] EXCEPT
                                                !.current_turn = k])
                   IN  /\ 0 <= after.current_turn
                       /\ after.current_turn < Len(after.combatants)]_vars

(* C27's case: of three combatants added (ids 2, 3, 4) one has been        *)
(* removed, and since then two AdvanceTurn calls have taken the cursor     *)
(* over the two that remain and back to index 0, in round 2.               *)
C27_Witness ==
    /\ uuid_count = 4
    /\ response = [status |-> 200, detail |-> "OK"]
    /\ \E c \in Combats :
          LET l == active_combats[c].combatants
          IN  /\ Len(l) = 2
              /\ <<l[1].id, l[2].id>> = <<2, 4>>
              /\ active_combats[c].current_turn = 0
              /\ active_combats[c].round_number = 2
              /\ advances[c] = 2

(* What AddCombatant fixes for the lifetime of a combatant. *)
CreationAttributes(combatant) ==
    [id |-> combatant.id, name |-> combatant.name,
     initiative |-> combatant.initiative, hp_max |-> combatant.hp_max,
     ac |-> combatant.ac, type |-> combatant.type,
     monster_index |-> combatant.monster_index]

(* C28: the attributes a combatant is created with never change while it   *)
(* is in its session. The AddCombatant that creates it stores the id drawn *)
(* and the name, initiative, hp_max, armor class, category tag and         *)
(* external reference key of the request; and no request on the session    *)
(* (UpdateHP, AddCondition, RemoveCondition, AdvanceTurn, AddCombatant,    *)
(* RemoveCombatant of another combatant) changes any of them in a          *)
(* combatant that is in the session before and after it.                   *)
C28_CreationAttributesKept ==
    [][/\ \A c \in Combats, initiative \in {12, 18}, now \in OneTime :
             add_combatant(c, "Goblin", initiative, 1, 1, None, "npc", None, now)
             => /\ FindCombatant(active_combats'[c].combatants,
                                 uuid_count + 1) # 0
                /\ CreationAttributes(CombatantOf(active_combats', c,
                                                   uuid_count + 1))
                      = [id |-> uuid_count + 1, name |-> "Goblin",
                         initiative |-> initiative, hp_max |-> 1,
                         ac |-> None, type |-> "npc", monster_index |-> None]
       /\ \A c \in Combats \cap DOMAIN active_combats' :
             \A id \in CombatantIdsOf(active_combats, c)
                          \cap CombatantIdsOf(active_combats', c) :
                 CreationAttributes(CombatantOf(active_combats', c, id))
                    = CreationAttributes(CombatantOf(active_combats, c, id))
      ]_vars

(* C28's case: combatant 2, added with initiative 12, has seen combatant 3 *)
(* added and removed and combatant 4 added in front of it (initiative 18), *)
(* has been made Prone and the session has been advanced into round 2; it  *)
(* is still the Goblin of initiative 12, hp_max 1, tag npc.                *)
C28_Witness ==
    /\ uuid_count = 4
    /\ \E c \in Combats :
          LET l == active_combats[c].combatants
          IN  /\ Len(l) = 2
              /\ <<l[1].id, l[2].id>> = <<4, 2>>
              /\ l[1].initiative = 18
              /\ l[2].conditions = <<"Prone">>
              /\ active_combats[c].round_number = 2
              /\ CreationAttributes(l[2])
                    = [id |-> 2, name |-> "Goblin", initiative |-> 12,
                       hp_max |-> 1, ac |-> None, type |-> "npc",
                       monster_index |-> None]

(* C29: UpdateHP, AddCondition and RemoveCondition act on the combatant    *)
(* whose id they are given and on no other: every other combatant of the   *)
(* session is in it after the call with the hp_current and the conditions  *)
(* it had before.                                                          *)
C29_OnlyTheNamedCombatant ==
    [][\A c \in Combats, id \in LiveCombatantIds, delta \in {-1, 1},
         now \in OneTime :
          (/\ HasCombatant(c, id)
           /\ \/ update_hp(c, id, delta, now)
              \/ add_condition(c, id, "Prone", now)
              \/ remove_condition(c, id, "Prone", now))
          => \A other \in CombatantIdsOf(active_combats, c) \ {id} :
                /\ other \in CombatantIdsOf(active_combats', c)
                /\ CombatantOf(active_combats', c, other).hp_current
                      = CombatantOf(active_combats, c, other).hp_current
                /\ CombatantOf(active_combats', c, other).conditions
                      = CombatantOf(active_combats, c, other).conditions]_vars

(* C29's case: combatant 3 was added to the session after combatant 2, has *)
(* since lost a hit point and been made Prone, and combatant 2 stands next *)
(* to it with its 2 hit points and no condition.                           *)
C29_Witness ==
    \E c \in Combats :
        LET l == active_combats[c].combatants
        IN  /\ Len(l) = 2
            /\ <<l[1].id, l[2].id>> = <<2, 3>>
            /\ l[1].hp_current = 2 /\ l[1].conditions = <<>>
            /\ l[2].hp_current = 1 /\ l[2].conditions = <<"Prone">>

(* C30: a deleted session is never resurrected. Once a DeleteSession(id)   *)
(* has been answered 200, id is not in the registry, whichever requests of *)
(* the same batch (AddCombatant, RemoveCombatant, AdvanceTurn, UpdateHP,   *)
(* AddCondition, RemoveCondition on that session) run before or after it;  *)
(* and the registry gets a new entry only in a step of CreateSession, and  *)
(* then under an id that was never handed out before, so that no request   *)
(* made later brings a deleted id back either.                             *)
C30_NoResurrection ==
    [][/\ \A r \in in_flight' :
             (r.op = "delete_combat" /\ r.pc = "done" /\ r.status = 200)
             => r.combat_id \notin DOMAIN active_combats'
       /\ \A c \in DOMAIN active_combats' \ Combats :
             /\ c \notin EverIds
             /\ \E name \in Names, now \in OneTime : create_combat(name, now)
       /\ \A c \in EverIds \ Combats : c \notin DOMAIN active_combats'
      ]_vars

(* C30's case: a DeleteSession and an AddCombatant on the same session     *)
(* were in flight together; the deletion ran first and was answered 200,   *)
(* the addition ran after it and was answered 404, and the session is not  *)
(* in the registry.                                                        *)
C30_Witness ==
    \E a, b \in in_flight :
        /\ a.op = "delete_combat" /\ a.pc = "done" /\ a.status = 200
        /\ b.op = "add_combatant" /\ b.pc = "done" /\ b.status = 404
        /\ a.combat_id = b.combat_id
        /\ a.combat_id \notin Combats
=============================================================================
